---- MODULE Spec2Model ----
(***************************************************************************)
(* kleinpa/oops: the terminal UI (App.vue) and the typed generation worker *)
(* (worker.ts), both in src/unnamed/part_000, connected by the two FIFO    *)
(* postMessage channels.                                                   *)
(*                                                                         *)
(* Text is a sequence of lines (each line a string without its newline);   *)
(* string concatenation is sequence concatenation.  A fragment streamed by *)
(* the model is a text, so fragments break at line ends.                   *)
(*                                                                         *)
(* Every JavaScript turn (a message handler, a key handler, a callback or  *)
(* a continuation after an await with the microtasks that follow it) is    *)
(* one action.                                                             *)
(***************************************************************************)
EXTENDS Integers, Sequences, FiniteSets, TLC

VARIABLES
    \* worker.ts
    generator,          \* NULL or the loaded pipeline
    interrupted,        \* stoppingCriteria.interrupted
    loads,              \* invocations of loadModel suspended at their await
    gens,               \* invocations of generate suspended at their await
    \* the channels
    cmdQ,               \* UI -> worker, FIFO
    evtQ,               \* worker -> UI, FIFO
    \* App.vue
    modelStatus,
    currentLine,
    currentBotResponse,
    messages,
    isFirstLoad,
    styleCss,           \* innerHTML of the generated style element, as lines
    \* bookkeeping (history variables, read by no handler)
    handled,            \* commands the worker has handled
    finished,           \* the invocation that returned in the last worker turn
    workerStatus,       \* payload of the last model_status the worker posted
    stopsSent,          \* stop commands the UI has sent
    stopMark,           \* what has happened since the UI last sent stop
    \* the callers of the harnesses (constant in the composed system)
    turn,               \* the handler the harness called last, or "none"
    written,            \* what the handler the harness called last wrote to term
    heldArray,          \* the array a caller holds and passes to applyGeneratedCss
    \* the flag-based worker.js
    isGenerating,
    \* the AbortController worker.js
    controller,         \* <<id>> of the generate whose AbortController it holds, or <<>>
    \* the earlier App.vue
    isLoading,
    isModelLoading,
    loadingStatus,
    progressValue,      \* progress.value
    lastShownProgress,
    completedBotResponses,
    modelName

workerVars == <<generator, interrupted, loads, gens>>
chanVars == <<cmdQ, evtQ>>
uiVars == <<modelStatus, currentLine, currentBotResponse, messages, isFirstLoad, styleCss>>
bookVars == <<handled, finished, workerStatus, stopsSent, stopMark>>
\* What no turn of the worker touches.
uiSide == <<modelStatus, currentLine, currentBotResponse, messages, isFirstLoad, styleCss,
            stopsSent, stopMark>>
vars == <<generator, interrupted, loads, gens, cmdQ, evtQ, modelStatus, currentLine,
          currentBotResponse, messages, isFirstLoad, styleCss, handled, finished,
          workerStatus, stopsSent, stopMark, turn, written, heldArray, isGenerating,
          controller, isLoading, isModelLoading, loadingStatus, progressValue,
          lastShownProgress, completedBotResponses, modelName>>
\* The state of the flag-based variant of the worker.
earlyUiVars == <<isLoading, isModelLoading, loadingStatus, progressValue, lastShownProgress,
                 completedBotResponses, modelName>>
earlyVars == <<controller, earlyUiVars>>
variantVars == <<isGenerating, earlyVars>>
\* What only a harness touches.
callerVars == <<turn, written, heldArray>>

(***************************************************************************)
(* Bounds of the model.                                                    *)
(***************************************************************************)
MaxLine == 1        \* characters in the line buffer
MaxSends == 2       \* lines the user commits
MaxStops == 1       \* times the user interrupts
MaxFrags == 2       \* fragments one generation streams
MaxProgress == 2    \* progress callbacks of one load
MaxCmds == 3        \* commands the harness posts to the worker alone

NULL == "null"
modelId == "Xenova/Phi-3-mini-4k-instruct"

\* Printable keys.
Keys == {"x"}

\* Fragments the model can stream: the opening of a css block with one rule,
\* and a line of text.  A fence line is written with tildes,
\* which stand for the backquotes of the prompt's fences.
Chunks == { <<"~~~css", "a{}">>, <<"ok">> }

\* What the runtime hands to progress_callback, whose parameter is
\* { status: string, progress?: number }: a stage, and a percentage (in tenths
\* of a percent) when it has one.  The transformers runtime reports the stages
\* initiate, download, progress, done and, once the pipeline is built, ready.
ProgressInputs ==
    { [status |-> "initiate", progress |-> 100],
      [status |-> "download", progress |-> 665],
      [status |-> "ready"] }

RECURSIVE Flatten(_)
Flatten(ss) == IF ss = <<>> THEN <<>> ELSE Head(ss) \o Flatten(Tail(ss))

RemoveAt(s, i) == SubSeq(s, 1, i - 1) \o SubSeq(s, i + 1, Len(s))

(***************************************************************************)
(* worker.ts                                                                *)
(***************************************************************************)

\* String.prototype.toUpperCase on the stage names the runtime reports.
ToUpperCase(s) ==
    CASE s = "initiate" -> "INITIATE"
      [] s = "download" -> "DOWNLOAD"
      [] s = "progress" -> "PROGRESS"
      [] s = "done" -> "DONE"
      [] s = "ready" -> "READY"

\* Math.round on a value given in tenths: the nearest integer, halves up.
MathRound(tenths) == (tenths + 5) \div 10

\* The label progress_callback builds.
statusText(progress) ==
    IF "progress" \in DOMAIN progress
    THEN ToUpperCase(progress.status) \o " " \o ToString(MathRound(progress.progress)) \o "%"
    ELSE ToUpperCase(progress.status)

\* postStatus: the model_status event for a status without its model_name.
postStatus(status, ready, interruptable) ==
    [type |-> "model_status",
     payload |-> [status |-> status, ready |-> ready,
                  interruptable |-> interruptable, model_name |-> modelId]]

StatusGenerating == postStatus("GENERATING", FALSE, TRUE)
StatusReady == postStatus("READY", TRUE, FALSE)

NoInvocation == [kind |-> "none", id |-> 0, out |-> <<>>, produced |-> <<>>,
                 recvStatus |-> "", hadGenerator |-> FALSE, how |-> "none"]

Done(kind, id, out, produced, recvStatus, hadGenerator, how) ==
    [kind |-> kind, id |-> id, out |-> out, produced |-> produced,
     recvStatus |-> recvStatus, hadGenerator |-> hadGenerator, how |-> how]

\* The status of the last model_status among evs, or old when there is none.
RECURSIVE LastStatus(_, _)
LastStatus(evs, old) ==
    IF evs = <<>> THEN old
    ELSE IF Head(evs).type = "model_status"
         THEN LastStatus(Tail(evs), Head(evs).payload)
         ELSE LastStatus(Tail(evs), old)

\* self.postMessage of evs, in order.
Post(evs) ==
    /\ evtQ' = evtQ \o evs
    /\ workerStatus' = LastStatus(evs, workerStatus)

\* The listener takes the next command off the channel.
Receive(type) ==
    /\ cmdQ # <<>>
    /\ Head(cmdQ).type = type
    /\ cmdQ' = Tail(cmdQ)
    /\ handled' = handled + 1

\* loadModel, up to its await of pipeline().
loadModelStart ==
    <<[type |-> "load_start"], postStatus("INITIALIZING", FALSE, FALSE)>>

loadModel ==
    /\ Receive("load")
    /\ LET evs == loadModelStart
       IN /\ Post(evs)
          /\ loads' = Append(loads, [id |-> handled + 1, produced |-> <<>>, out |-> evs])
    /\ finished' = NoInvocation
    /\ UNCHANGED <<generator, interrupted, gens, uiSide>>

\* Mutant of progressStatus: ready is derived from the label.
progressStatus_readyFromLabel(progress) ==
    postStatus(statusText(progress), statusText(progress) = "READY", FALSE)

\* The event progress_callback posts.
progressStatus(progress) == postStatus(statusText(progress), FALSE, FALSE)

progress_callback(i, progress) ==
    /\ i \in 1..Len(loads)
    /\ Len(loads[i].produced) < MaxProgress
    /\ LET ev == progressStatus(progress)
       IN /\ Post(<<ev>>)
          /\ loads' = [loads EXCEPT ![i].produced = Append(@, statusText(progress)),
                                  ![i].out = Append(@, ev)]
    /\ finished' = NoInvocation
    /\ UNCHANGED <<generator, interrupted, gens, cmdQ, handled, uiSide>>

\* pipeline() resolved: the continuation of loadModel's try block.
loadResolvedEvents == <<StatusReady>>

pipelineResolved(i) ==
    /\ i \in 1..Len(loads)
    /\ generator' = "pipeline"
    /\ LET evs == loadResolvedEvents
       IN /\ Post(evs)
          /\ finished' = Done("load", loads[i].id, loads[i].out \o evs,
                              loads[i].produced, "", generator # NULL, "resolved")
    /\ loads' = RemoveAt(loads, i)
    /\ UNCHANGED <<interrupted, gens, cmdQ, handled, uiSide>>

\* Mutant of loadRejectedEvents: the WebGPU hint is missing.
loadRejectedEvents_noHint ==
    << [type |-> "system_message", payload |-> <<"", "[FATAL ERROR]">>],
       postStatus("ERROR", FALSE, FALSE) >>

\* pipeline() rejected: loadModel's catch block.
loadRejectedEvents ==
    << [type |-> "system_message", payload |-> <<"", "[FATAL ERROR]">>],
       [type |-> "system_message",
        payload |-> <<"Failed to load model. Ensure you are using a modern browser that supports WebGPU.">>],
       postStatus("ERROR", FALSE, FALSE) >>

pipelineRejected(i) ==
    /\ i \in 1..Len(loads)
    /\ LET evs == loadRejectedEvents
       IN /\ Post(evs)
          /\ finished' = Done("load", loads[i].id, loads[i].out \o evs,
                              loads[i].produced, "", generator # NULL, "rejected")
    /\ loads' = RemoveAt(loads, i)
    /\ UNCHANGED <<generator, interrupted, gens, cmdQ, handled, uiSide>>

\* generate, up to its await of generator.model.generate(): the status is
\* posted before generator is looked at.
generateStart == <<StatusGenerating>>

generate ==
    /\ Receive("generate")
    /\ LET id == handled + 1
           evs == generateStart
       IN /\ Post(evs)
          /\ IF generator = NULL
             THEN /\ finished' = Done("gen", id, evs, <<>>, workerStatus.status,
                                      FALSE, "no generator")
                  /\ UNCHANGED <<interrupted, gens>>
             ELSE /\ interrupted' = FALSE      \* stoppingCriteria.reset()
                  /\ gens' = Append(gens, [id |-> id, produced |-> <<>>, out |-> evs,
                                           recvStatus |-> workerStatus.status])
                  /\ finished' = NoInvocation
    /\ UNCHANGED <<generator, loads, uiSide>>

\* Mutant of callback_function: a fragment produced after a stop is dropped,
\* as the flag-based worker.js does.
callback_function_unlessStopped(text, id) ==
    IF interrupted THEN <<>>
    ELSE <<[type |-> "generation_stream", payload |-> text, gen |-> id]>>

\* The streamer's callback_function: what it posts for one fragment.
callback_function(text, id) ==
    <<[type |-> "generation_stream", payload |-> text, gen |-> id]>>

\* Mutant of generateReturned: generation_complete without the READY status.
generateReturned_noReady(g) ==
    << [type |-> "generation_complete", gen |-> g.id, said |-> Flatten(g.produced)] >>


\* What generate posts once the model call has returned.
generateReturned(g) ==
    << [type |-> "generation_complete", gen |-> g.id, said |-> Flatten(g.produced)],
       StatusReady >>

\* Mutant of generateCaught: the catch block logs and posts READY without a
\* generation_complete.
generateCaught_noComplete(g) ==
    << [type |-> "worker_log", payload |-> [level |-> "error", message |-> <<"error">>]],
       StatusReady >>

\* What generate's catch block posts.
generateCaught(g) ==
    << [type |-> "worker_log", payload |-> [level |-> "error", message |-> <<"error">>]],
       [type |-> "generation_complete", gen |-> g.id, said |-> Flatten(g.produced)],
       StatusReady >>

\* The model produced a token that completes a fragment; the loop then asks
\* the stopping criteria, and returns when the token is interrupted.
modelStep(i, text) ==
    /\ i \in 1..Len(gens)
    /\ Len(gens[i].produced) < MaxFrags
    /\ LET g == [gens[i] EXCEPT !.produced = Append(@, text)]
           ev == callback_function(text, g.id)
       IN IF interrupted
          THEN /\ Post(ev \o generateReturned(g))
               /\ gens' = RemoveAt(gens, i)
               /\ finished' = Done("gen", g.id, g.out \o ev \o generateReturned(g),
                                   g.produced, g.recvStatus, TRUE, "returned")
          ELSE /\ Post(ev)
               /\ gens' = [gens EXCEPT ![i] = [g EXCEPT !.out = @ \o ev]]
               /\ finished' = NoInvocation
    /\ UNCHANGED <<generator, interrupted, loads, cmdQ, handled, uiSide>>

\* The model call returned: end of sequence, the token limit, or the loop saw
\* the interrupt.
modelReturn(i) ==
    /\ i \in 1..Len(gens)
    /\ LET g == gens[i]
       IN /\ Post(generateReturned(g))
          /\ finished' = Done("gen", g.id, g.out \o generateReturned(g),
                              g.produced, g.recvStatus, TRUE, "returned")
    /\ gens' = RemoveAt(gens, i)
    /\ UNCHANGED <<generator, interrupted, loads, cmdQ, handled, uiSide>>

\* The model call threw.
modelThrow(i) ==
    /\ i \in 1..Len(gens)
    /\ LET g == gens[i]
       IN /\ Post(generateCaught(g))
          /\ finished' = Done("gen", g.id, g.out \o generateCaught(g),
                              g.produced, g.recvStatus, TRUE, "threw")
    /\ gens' = RemoveAt(gens, i)
    /\ UNCHANGED <<generator, interrupted, loads, cmdQ, handled, uiSide>>

\* Mutant of stop: the token is interrupted and the status is left to the end
\* of the running generation.
stop_silent ==
    /\ Receive("stop")
    /\ interrupted' = TRUE
    /\ finished' = NoInvocation
    /\ UNCHANGED <<generator, loads, gens, evtQ, workerStatus, uiSide>>

stop ==
    /\ Receive("stop")
    /\ interrupted' = TRUE                     \* stoppingCriteria.interrupt()
    /\ Post(<<StatusReady>>)
    /\ finished' = NoInvocation
    /\ UNCHANGED <<generator, loads, gens, uiSide>>

(***************************************************************************)
(* App.vue                                                                 *)
(***************************************************************************)

\* The instructional preamble: a system message and two worked examples.
modelInstructions ==
    << [role |-> "system", content |-> <<"rules">>],
       [role |-> "user", content |-> <<"example 1">>],
       [role |-> "assistant", content |-> <<"answer 1">>],
       [role |-> "user", content |-> <<"example 2">>],
       [role |-> "assistant", content |-> <<"answer 2">>] >>

\* marked.lexer, as far as fenced code goes: a fence line opens a code block
\* tagged with what follows the fence; the block runs to the next bare fence
\* line or to the end of the text; every other line is prose.
IsFence(l) == l \in {"~~~", "~~~css", "~~~js"}

FenceLang(l) == CASE l = "~~~css" -> "css" [] l = "~~~js" -> "js" [] OTHER -> ""

CodeToken(lang, body) == [type |-> "code", lang |-> lang, text |-> body]

RECURSIVE Lex(_, _, _, _)
Lex(rest, inCode, lang, body) ==
    IF rest = <<>>
    THEN IF inCode THEN <<CodeToken(lang, body)>> ELSE <<>>
    ELSE LET l == Head(rest)
         IN IF inCode
            THEN IF l = "~~~"
                 THEN <<CodeToken(lang, body)>> \o Lex(Tail(rest), FALSE, "", <<>>)
                 ELSE Lex(Tail(rest), TRUE, lang, Append(body, l))
            ELSE IF IsFence(l)
                 THEN Lex(Tail(rest), TRUE, FenceLang(l), <<>>)
                 ELSE <<[type |-> "paragraph", lang |-> "", text |-> <<l>>]>>
                          \o Lex(Tail(rest), FALSE, "", <<>>)

lexer(text) == Lex(text, FALSE, "", <<>>)

\* token.text + '\n' as lines: the body's lines, or one empty line.
TextNewline(body) == IF body = <<>> THEN <<"">> ELSE body

\* Mutant of CssOfTokens: every code block counts, whatever its tag.
RECURSIVE CssOfTokens_anyLang(_)
CssOfTokens_anyLang(tokens) ==
    IF tokens = <<>> THEN <<>>
    ELSE (IF Head(tokens).type = "code"
          THEN TextNewline(Head(tokens).text) ELSE <<>>)
         \o CssOfTokens_anyLang(Tail(tokens))


RECURSIVE CssOfTokens(_)
CssOfTokens(tokens) ==
    IF tokens = <<>> THEN <<>>
    ELSE (IF Head(tokens).type = "code" /\ Head(tokens).lang = "css"
          THEN TextNewline(Head(tokens).text) ELSE <<>>)
         \o CssOfTokens(Tail(tokens))

Reverse(s) == [i \in 1..Len(s) |-> s[Len(s) + 1 - i]]

RECURSIVE CssOfResponses(_)
CssOfResponses(responses) ==
    IF responses = <<>> THEN <<>>
    ELSE CssOfTokens(lexer(Head(responses))) \o CssOfResponses(Tail(responses))

\* applyGeneratedCss: the content it gives the style element.
applyGeneratedCss(responses) == CssOfResponses(Reverse(responses))

IsAssistant(m) == m.role = "assistant"
IsUser(m) == m.role = "user"

\* messages.value.filter(m => m.role === 'assistant').map(m => m.content)
AssistantContents(msgs) ==
    LET a == SelectSeq(msgs, IsAssistant) IN [i \in 1..Len(a) |-> a[i].content]

\* Object.assign(target, source)
ObjectAssign(target, source) ==
    [f \in DOMAIN target \cup DOMAIN source |->
        IF f \in DOMAIN source THEN source[f] ELSE target[f]]

\* Mutant of sendMessage: the live response buffer is not reset.
sendMessage_keepsBuffer(text) ==
    IF ~modelStatus.ready
    THEN UNCHANGED <<messages, currentBotResponse, cmdQ, stopMark>>
    ELSE /\ messages' = Append(messages, [role |-> "user", content |-> text, said |-> <<>>])
         /\ UNCHANGED currentBotResponse
         /\ cmdQ' = Append(cmdQ,
                [type |-> "generate",
                 payload |-> [messages |->
                     modelInstructions \o <<[role |-> "user", content |-> text]>>]])
         /\ stopMark' = "none"


\* sendMessage(text)
sendMessage(text) ==
    IF ~modelStatus.ready
    THEN UNCHANGED <<messages, currentBotResponse, cmdQ, stopMark>>
    ELSE /\ messages' = Append(messages, [role |-> "user", content |-> text, said |-> <<>>])
         /\ currentBotResponse' = <<>>
         /\ cmdQ' = Append(cmdQ,
                [type |-> "generate",
                 payload |-> [messages |->
                     modelInstructions \o <<[role |-> "user", content |-> text]>>]])
         /\ stopMark' = "none"

\* stopGeneration()
stopGeneration ==
    /\ cmdQ' = Append(cmdQ, [type |-> "stop"])
    /\ styleCss' = applyGeneratedCss(AssistantContents(messages))
    /\ stopsSent' = stopsSent + 1
    /\ stopMark' = IF modelStatus.status = "GENERATING" THEN "sent" ELSE stopMark

\* Mutant of keyCtrlC: the prompt is not redrawn, so the line buffer is kept.
keyCtrlC_keepsLine ==
    /\ IF modelStatus.interruptable
       THEN /\ stopsSent < MaxStops
            /\ stopGeneration
            /\ UNCHANGED currentLine
       ELSE UNCHANGED <<cmdQ, styleCss, stopsSent, stopMark, currentLine>>
    /\ UNCHANGED <<workerVars, evtQ, modelStatus, currentBotResponse, messages,
                   isFirstLoad, handled, finished, workerStatus>>


\* term.onKey: Ctrl-C
keyCtrlC ==
    /\ IF modelStatus.interruptable
       THEN /\ stopsSent < MaxStops
            /\ stopGeneration
            /\ currentLine' = <<>>             \* writePrompt()
       ELSE UNCHANGED <<cmdQ, styleCss, stopsSent, stopMark, currentLine>>
    /\ UNCHANGED <<workerVars, evtQ, modelStatus, currentBotResponse, messages,
                   isFirstLoad, handled, finished, workerStatus>>

\* term.onKey: Enter
keyEnter ==
    /\ IF modelStatus.ready /\ currentLine # <<>>
       THEN /\ Len(SelectSeq(messages, IsUser)) < MaxSends
            /\ sendMessage(currentLine)
            /\ currentLine' = <<>>
       ELSE UNCHANGED <<messages, currentBotResponse, cmdQ, stopMark, currentLine>>
    /\ UNCHANGED <<workerVars, evtQ, modelStatus, isFirstLoad, styleCss,
                   handled, finished, workerStatus, stopsSent>>

\* Mutant of SliceLast: slice(1), which drops the first character.
SliceLast_first(s) == SubSeq(s, 2, Len(s))


\* String.prototype.slice(0, -1)
SliceLast(s) == SubSeq(s, 1, Len(s) - 1)

\* Mutant of keyBackspace: the key is taken whatever the mirrored status.
keyBackspace_always ==
    /\ IF Len(currentLine) > 0
       THEN currentLine' = SliceLast(currentLine)
       ELSE UNCHANGED currentLine
    /\ UNCHANGED <<workerVars, chanVars, modelStatus, currentBotResponse, messages,
                   isFirstLoad, styleCss, bookVars>>


\* term.onKey: Backspace
keyBackspace ==
    /\ IF modelStatus.ready /\ Len(currentLine) > 0
       THEN currentLine' = SliceLast(currentLine)
       ELSE UNCHANGED currentLine
    /\ UNCHANGED <<workerVars, chanVars, modelStatus, currentBotResponse, messages,
                   isFirstLoad, styleCss, bookVars>>

\* Mutant of keyPrintable: the key is taken whatever the mirrored status.
keyPrintable_always(key) ==
    /\ Len(currentLine) < MaxLine
    /\ currentLine' = Append(currentLine, key)
    /\ UNCHANGED <<workerVars, chanVars, modelStatus, currentBotResponse, messages,
                   isFirstLoad, styleCss, bookVars>>

\* term.onKey: a printable key
keyPrintable(key) ==
    /\ IF modelStatus.ready
       THEN /\ Len(currentLine) < MaxLine
            /\ currentLine' = Append(currentLine, key)
       ELSE UNCHANGED currentLine
    /\ UNCHANGED <<workerVars, chanVars, modelStatus, currentBotResponse, messages,
                   isFirstLoad, styleCss, bookVars>>

\* handleWorkerMessage takes the next event off the channel.
Deliver(type) ==
    /\ evtQ # <<>>
    /\ Head(evtQ).type = type
    /\ evtQ' = Tail(evtQ)

\* case 'worker_log', and the events no case handles
onWorkerLog ==
    /\ Deliver("worker_log")
    /\ UNCHANGED <<workerVars, cmdQ, uiVars, bookVars>>

onUnhandled ==
    /\ \E type \in {"load_start", "system_message"} : Deliver(type)
    /\ UNCHANGED <<workerVars, cmdQ, uiVars, bookVars>>

\* case 'model_status'
onModelStatus ==
    /\ Deliver("model_status")
    /\ LET assigned == ObjectAssign(modelStatus, Head(evtQ).payload)
       IN /\ modelStatus' = assigned
          /\ IF assigned.status = "READY" /\ isFirstLoad
             THEN /\ isFirstLoad' = FALSE
                  /\ currentLine' = <<>>       \* writePrompt()
             ELSE UNCHANGED <<isFirstLoad, currentLine>>
          /\ stopMark' = IF stopMark = "sent" /\ assigned.status = "READY"
                            /\ ~assigned.interruptable
                         THEN "ready" ELSE stopMark
    /\ UNCHANGED <<workerVars, cmdQ, currentBotResponse, messages, styleCss,
                   handled, finished, workerStatus, stopsSent>>

\* Mutant of onGenerationStream: the style is extracted from the finalized
\* messages only.
onGenerationStream_finalizedOnly ==
    /\ Deliver("generation_stream")
    /\ currentBotResponse' = currentBotResponse \o Head(evtQ).payload
    /\ styleCss' = applyGeneratedCss(AssistantContents(messages))
    /\ UNCHANGED <<workerVars, cmdQ, modelStatus, currentLine, messages, isFirstLoad,
                   bookVars>>

\* case 'generation_stream'
onGenerationStream ==
    /\ Deliver("generation_stream")
    /\ LET token == Head(evtQ).payload
       IN /\ currentBotResponse' = currentBotResponse \o token
          /\ styleCss' = applyGeneratedCss(
                 Append(AssistantContents(messages), currentBotResponse \o token))
    /\ UNCHANGED <<workerVars, cmdQ, modelStatus, currentLine, messages, isFirstLoad,
                   bookVars>>

\* Mutant of onGenerationComplete: the style is extracted before the push.
onGenerationComplete_styleBeforePush ==
    /\ Deliver("generation_complete")
    /\ messages' = Append(messages,
           [role |-> "assistant", content |-> currentBotResponse,
            said |-> Head(evtQ).said])
    /\ styleCss' = applyGeneratedCss(AssistantContents(messages))
    /\ currentLine' = <<>>
    /\ UNCHANGED <<workerVars, cmdQ, modelStatus, currentBotResponse, isFirstLoad,
                   bookVars>>

\* case 'generation_complete'
onGenerationComplete ==
    /\ Deliver("generation_complete")
    /\ LET pushed == Append(messages,
               [role |-> "assistant", content |-> currentBotResponse,
                said |-> Head(evtQ).said])
       IN /\ messages' = pushed
          /\ styleCss' = applyGeneratedCss(AssistantContents(pushed))
    /\ currentLine' = <<>>                     \* writePrompt()
    /\ UNCHANGED <<workerVars, cmdQ, modelStatus, currentBotResponse, isFirstLoad,
                   bookVars>>

(***************************************************************************)
(* The composed system: the page after onMounted, which created the worker *)
(* and posted load.                                                        *)
(***************************************************************************)
\* The earlier page and its worker before onMounted has run.
InitEarly ==
    /\ controller = <<>>
    /\ isLoading = TRUE
    /\ isModelLoading = TRUE
    /\ loadingStatus = "Initializing..."
    /\ progressValue = 0
    /\ lastShownProgress = 0
    /\ completedBotResponses = <<>>
    /\ modelName = ""

InitWorker ==
    /\ generator = NULL
    /\ interrupted = FALSE
    /\ loads = <<>>
    /\ gens = <<>>
    /\ evtQ = <<>>
    /\ handled = 0
    /\ finished = NoInvocation
    /\ workerStatus = [status |-> "NONE", ready |-> FALSE, interruptable |-> FALSE,
                       model_name |-> modelId]
    /\ isGenerating = FALSE
    /\ InitEarly

InitUI ==
    /\ modelStatus = [model_name |-> "", status |-> "INITIALIZING",
                      ready |-> FALSE, interruptable |-> FALSE]
    /\ currentLine = <<>>
    /\ currentBotResponse = <<>>
    /\ messages = <<>>
    /\ isFirstLoad = TRUE
    /\ styleCss = <<>>
    /\ stopsSent = 0
    /\ stopMark = "none"

\* No caller but the page itself.
NoCaller == turn = "none" /\ written = <<>> /\ heldArray = <<>>

Init == InitWorker /\ InitUI /\ NoCaller /\ cmdQ = <<[type |-> "load"]>>

Next ==
    \/ loadModel /\ UNCHANGED <<callerVars, variantVars>>
    \/ \E i \in DOMAIN loads, p \in ProgressInputs : progress_callback(i, p) /\ UNCHANGED <<callerVars, variantVars>>
    \/ \E i \in DOMAIN loads : pipelineResolved(i) /\ UNCHANGED <<callerVars, variantVars>>
    \/ \E i \in DOMAIN loads : pipelineRejected(i) /\ UNCHANGED <<callerVars, variantVars>>
    \/ generate /\ UNCHANGED <<callerVars, variantVars>>
    \/ \E i \in DOMAIN gens, t \in Chunks : modelStep(i, t) /\ UNCHANGED <<callerVars, variantVars>>
    \/ \E i \in DOMAIN gens : modelReturn(i) /\ UNCHANGED <<callerVars, variantVars>>
    \/ \E i \in DOMAIN gens : modelThrow(i) /\ UNCHANGED <<callerVars, variantVars>>
    \/ stop /\ UNCHANGED <<callerVars, variantVars>>
    \/ keyCtrlC /\ UNCHANGED <<callerVars, variantVars>>
    \/ keyEnter /\ UNCHANGED <<callerVars, variantVars>>
    \/ keyBackspace /\ UNCHANGED <<callerVars, variantVars>>
    \/ \E key \in Keys : keyPrintable(key) /\ UNCHANGED <<callerVars, variantVars>>
    \/ onWorkerLog /\ UNCHANGED <<callerVars, variantVars>>
    \/ onUnhandled /\ UNCHANGED <<callerVars, variantVars>>
    \/ onModelStatus /\ UNCHANGED <<callerVars, variantVars>>
    \/ onGenerationStream /\ UNCHANGED <<callerVars, variantVars>>
    \/ onGenerationComplete /\ UNCHANGED <<callerVars, variantVars>>

Spec == Init /\ [][Next]_vars

(***************************************************************************)
(* The composed system under the scheduling the event loops give: a posted *)
(* message is eventually handed to its listener, and every call of         *)
(* generator.model.generate eventually returns or throws.  Nothing is      *)
(* assumed of the user or of pipeline().                                   *)
(***************************************************************************)
\* Ids an invocation can have: one per command the worker handles.
GenIds == 1..(1 + MaxSends + MaxStops)

listener == (loadModel \/ generate \/ stop) /\ UNCHANGED <<callerVars, variantVars>>

handleWorkerMessage ==
    /\ onWorkerLog \/ onUnhandled \/ onModelStatus \/ onGenerationStream
          \/ onGenerationComplete
    /\ UNCHANGED <<callerVars, variantVars>>

modelEnds(n) ==
    /\ \E i \in DOMAIN gens : gens[i].id = n /\ (modelReturn(i) \/ modelThrow(i))
    /\ UNCHANGED <<callerVars, variantVars>>

\* What the fragments say has no part in whether a turn is taken: here the
\* model streams one text only.
ChunksFair == { <<"ok">> }

NextFair ==
    \/ loadModel /\ UNCHANGED <<callerVars, variantVars>>
    \/ \E i \in DOMAIN loads, p \in ProgressInputs : progress_callback(i, p) /\ UNCHANGED <<callerVars, variantVars>>
    \/ \E i \in DOMAIN loads : pipelineResolved(i) /\ UNCHANGED <<callerVars, variantVars>>
    \/ \E i \in DOMAIN loads : pipelineRejected(i) /\ UNCHANGED <<callerVars, variantVars>>
    \/ generate /\ UNCHANGED <<callerVars, variantVars>>
    \/ \E i \in DOMAIN gens, t \in ChunksFair : modelStep(i, t) /\ UNCHANGED <<callerVars, variantVars>>
    \/ \E i \in DOMAIN gens : modelReturn(i) /\ UNCHANGED <<callerVars, variantVars>>
    \/ \E i \in DOMAIN gens : modelThrow(i) /\ UNCHANGED <<callerVars, variantVars>>
    \/ stop /\ UNCHANGED <<callerVars, variantVars>>
    \/ keyCtrlC /\ UNCHANGED <<callerVars, variantVars>>
    \/ keyEnter /\ UNCHANGED <<callerVars, variantVars>>
    \/ keyBackspace /\ UNCHANGED <<callerVars, variantVars>>
    \/ \E key \in Keys : keyPrintable(key) /\ UNCHANGED <<callerVars, variantVars>>
    \/ onWorkerLog /\ UNCHANGED <<callerVars, variantVars>>
    \/ onUnhandled /\ UNCHANGED <<callerVars, variantVars>>
    \/ onModelStatus /\ UNCHANGED <<callerVars, variantVars>>
    \/ onGenerationStream /\ UNCHANGED <<callerVars, variantVars>>
    \/ onGenerationComplete /\ UNCHANGED <<callerVars, variantVars>>

FairSpec ==
    /\ Init /\ [][NextFair]_vars
    /\ WF_vars(listener)
    /\ WF_vars(handleWorkerMessage)
    /\ \A n \in GenIds : WF_vars(modelEnds(n))

(***************************************************************************)
(* The worker alone, as the test harness drives it: it hands the listener  *)
(* any command at any time (a load only while no load is running, which    *)
(* the worker leaves undefined), and reads the postMessage calls of a turn *)
(* before the next turn runs.  evtQ holds the calls it has not read yet.   *)
(***************************************************************************)
Commands ==
    { [type |-> "load"],
      [type |-> "generate",
       payload |-> [messages |-> <<[role |-> "user", content |-> <<"Hello">>]>>]],
      [type |-> "stop"] }

harnessPost(cmd) ==
    /\ handled < MaxCmds
    /\ cmdQ = <<>>
    /\ cmd.type = "load" => loads = <<>>
    /\ cmdQ' = Append(cmdQ, cmd)
    /\ UNCHANGED <<workerVars, evtQ, uiVars, bookVars, callerVars, variantVars>>

harnessRead ==
    /\ evtQ # <<>>
    /\ evtQ' = <<>>
    /\ UNCHANGED <<workerVars, cmdQ, uiVars, bookVars, callerVars, variantVars>>

InitHarness == InitWorker /\ InitUI /\ NoCaller /\ cmdQ = <<>>

NextWorker ==
    \/ \E cmd \in Commands : harnessPost(cmd)
    \/ harnessRead
    \/ evtQ = <<>> /\ loadModel /\ UNCHANGED <<callerVars, variantVars>>
    \/ evtQ = <<>> /\ \E i \in DOMAIN loads, p \in ProgressInputs : progress_callback(i, p) /\ UNCHANGED <<callerVars, variantVars>>
    \/ evtQ = <<>> /\ \E i \in DOMAIN loads : pipelineResolved(i) /\ UNCHANGED <<callerVars, variantVars>>
    \/ evtQ = <<>> /\ \E i \in DOMAIN loads : pipelineRejected(i) /\ UNCHANGED <<callerVars, variantVars>>
    \/ evtQ = <<>> /\ generate /\ UNCHANGED <<callerVars, variantVars>>
    \/ evtQ = <<>> /\ \E i \in DOMAIN gens, t \in Chunks : modelStep(i, t) /\ UNCHANGED <<callerVars, variantVars>>
    \/ evtQ = <<>> /\ \E i \in DOMAIN gens : modelReturn(i) /\ UNCHANGED <<callerVars, variantVars>>
    \/ evtQ = <<>> /\ \E i \in DOMAIN gens : modelThrow(i) /\ UNCHANGED <<callerVars, variantVars>>
    \/ evtQ = <<>> /\ stop /\ UNCHANGED <<callerVars, variantVars>>

SpecWorker == InitHarness /\ [][NextWorker]_vars

(***************************************************************************)
(* The terminal UI alone.  Its caller presses keys, calls sendMessage, and *)
(* hands handleWorkerMessage any event in any order, as a test of App.vue  *)
(* with a stub worker would; it reads the commands the UI posted after     *)
(* each handler.  turn names the handler that ran last, and is "none" once *)
(* the caller has read its commands.                                       *)
(***************************************************************************)
MaxResponse == 2    \* lines in the response buffer before the last fragment
MaxHistory == 3     \* messages in the history before the last one

StatusPayloads ==
    { [status |-> "READY", ready |-> TRUE, interruptable |-> FALSE, model_name |-> modelId],
      [status |-> "GENERATING", ready |-> FALSE, interruptable |-> TRUE, model_name |-> modelId],
      [status |-> "ERROR", ready |-> FALSE, interruptable |-> FALSE, model_name |-> modelId] }

callerEvent(e) ==
    /\ turn = "none"
    /\ evtQ = <<>>
    /\ e.type = "generation_stream" => Len(currentBotResponse) < MaxResponse
    /\ e.type = "generation_complete" => Len(messages) < MaxHistory
    /\ evtQ' = <<e>>
    /\ UNCHANGED <<workerVars, cmdQ, uiVars, bookVars, callerVars, variantVars>>

callerSendMessage(text) ==
    /\ turn = "none"
    /\ Len(SelectSeq(messages, IsUser)) < MaxSends
    /\ sendMessage(text)
    /\ turn' = "sendMessage"
    /\ written' = <<>>
    /\ UNCHANGED <<workerVars, evtQ, modelStatus, currentLine, isFirstLoad, styleCss,
                   handled, finished, workerStatus, stopsSent, heldArray, variantVars>>

callerRead ==
    /\ turn # "none"
    /\ turn' = "none"
    /\ written' = <<>>
    /\ cmdQ' = <<>>
    /\ UNCHANGED <<workerVars, evtQ, uiVars, bookVars, heldArray, variantVars>>

\* What each handler gives to term.write, in order (a streamed fragment and a
\* log message line by line).
PROMPT == "\\r\\n> "

keyCtrlCWrites == IF modelStatus.interruptable THEN <<"^C", PROMPT>> ELSE <<>>

keyEnterWrites == IF modelStatus.ready /\ currentLine # <<>> THEN <<"\\r\\n">> ELSE <<>>

keyBackspaceWrites ==
    IF modelStatus.ready /\ Len(currentLine) > 0 THEN <<"\\b \\b">> ELSE <<>>

keyPrintableWrites(key) == IF modelStatus.ready THEN <<key>> ELSE <<>>

onWorkerLogWrites == Head(evtQ).payload.message

onModelStatusWrites ==
    IF Head(evtQ).payload.status = "READY" /\ isFirstLoad THEN <<PROMPT>> ELSE <<>>

onGenerationStreamWrites == Head(evtQ).payload

onGenerationCompleteWrites == <<PROMPT>>

InitCaller == InitWorker /\ InitUI /\ NoCaller /\ cmdQ = <<>>

NextUI ==
    \/ \E p \in StatusPayloads : callerEvent([type |-> "model_status", payload |-> p])
    \/ \E t \in Chunks : callerEvent([type |-> "generation_stream", payload |-> t, gen |-> 0])
    \/ callerEvent([type |-> "generation_complete", gen |-> 0, said |-> <<>>])
    \/ callerEvent([type |-> "worker_log",
                    payload |-> [level |-> "error", message |-> <<"error">>]])
    \/ callerSendMessage(<<"x">>)
    \/ callerRead
    \/ turn = "none" /\ keyCtrlC /\ turn' = "keyCtrlC" /\ written' = keyCtrlCWrites
          /\ UNCHANGED <<heldArray, variantVars>>
    \/ turn = "none" /\ keyEnter /\ turn' = "keyEnter" /\ written' = keyEnterWrites
          /\ UNCHANGED <<heldArray, variantVars>>
    \/ turn = "none" /\ keyBackspace /\ turn' = "keyBackspace"
          /\ written' = keyBackspaceWrites /\ UNCHANGED <<heldArray, variantVars>>
    \/ turn = "none" /\ (\E key \in Keys : keyPrintable(key) /\ written' = keyPrintableWrites(key))
          /\ turn' = "keyPrintable" /\ UNCHANGED <<heldArray, variantVars>>
    \/ turn = "none" /\ onWorkerLog /\ turn' = "worker_log" /\ written' = onWorkerLogWrites
          /\ UNCHANGED <<heldArray, variantVars>>
    \/ turn = "none" /\ onModelStatus /\ turn' = "model_status"
          /\ written' = onModelStatusWrites /\ UNCHANGED <<heldArray, variantVars>>
    \/ turn = "none" /\ onGenerationStream /\ turn' = "generation_stream"
          /\ written' = onGenerationStreamWrites /\ UNCHANGED <<heldArray, variantVars>>
    \/ turn = "none" /\ onGenerationComplete /\ turn' = "generation_complete"
          /\ written' = onGenerationCompleteWrites /\ UNCHANGED <<heldArray, variantVars>>

SpecUI == InitCaller /\ [][NextUI]_vars

(***************************************************************************)
(* The line editor of term.onKey alone: the page has been used for a       *)
(* while, so the line buffer holds what the user typed and the mirrored    *)
(* status is READY or GENERATING; the caller presses Backspace or a        *)
(* printable key, or hands over a status.                                  *)
(***************************************************************************)
MaxTyped == 3       \* characters already in the line buffer

KeysLine == {"x", "y"}

TypedLines == UNION { [1..n -> KeysLine] : n \in 0..MaxTyped }

InitLine ==
    /\ InitWorker /\ NoCaller /\ cmdQ = <<>>
    /\ modelStatus \in {p \in StatusPayloads : p.status # "ERROR"}
    /\ currentLine \in TypedLines
    /\ currentBotResponse = <<>>
    /\ messages = <<>>
    /\ isFirstLoad = FALSE
    /\ styleCss = <<>>
    /\ stopsSent = 0
    /\ stopMark = "none"

NextLine ==
    \/ \E p \in StatusPayloads : callerEvent([type |-> "model_status", payload |-> p])
    \/ callerRead
    \/ turn = "none" /\ keyBackspace /\ turn' = "keyBackspace"
          /\ written' = keyBackspaceWrites /\ UNCHANGED <<heldArray, variantVars>>
    \/ turn = "none" /\ (\E key \in KeysLine : keyPrintable(key) /\ written' = keyPrintableWrites(key))
          /\ turn' = "keyPrintable" /\ UNCHANGED <<heldArray, variantVars>>
    \/ turn = "none" /\ onModelStatus /\ turn' = "model_status"
          /\ written' = onModelStatusWrites /\ UNCHANGED <<heldArray, variantVars>>

SpecLine == InitLine /\ [][NextLine]_vars

(***************************************************************************)
(* applyGeneratedCss alone: a caller holds an array of responses and calls *)
(* the function on it, on a copy of it, or pushes a response onto it.  The *)
(* call reverses the array it is given in place (Array.prototype.reverse)  *)
(* and sets the content of the style element.                              *)
(***************************************************************************)
MaxArray == 3       \* responses in the array the caller holds

\* Responses: a closed css block, a css block left open, a line of prose and
\* a block with another tag.
ResponseTexts ==
    { <<"~~~css", "a{}", "~~~">>,
      <<"ok", "~~~css", "b{}">>,
      <<"ok">>,
      <<"~~~js", "a{}", "~~~">> }

ResponseArrays ==
    UNION { [1..n -> ResponseTexts] : n \in 0..MaxArray }

\* applyGeneratedCss(heldArray)
callApplyGeneratedCss ==
    /\ heldArray' = Reverse(heldArray)
    /\ styleCss' = CssOfResponses(Reverse(heldArray))
    /\ turn' = "applyGeneratedCss"
    /\ UNCHANGED <<workerVars, chanVars, modelStatus, currentLine, currentBotResponse,
                   messages, isFirstLoad, bookVars, written, variantVars>>

\* applyGeneratedCss([...heldArray]): the copy is reversed and dropped.
callApplyGeneratedCssCopy ==
    /\ styleCss' = applyGeneratedCss(heldArray)
    /\ turn' = "applyGeneratedCss"
    /\ UNCHANGED <<workerVars, chanVars, modelStatus, currentLine, currentBotResponse,
                   messages, isFirstLoad, bookVars, written, heldArray, variantVars>>

\* The caller changes the array: it pushes a response.
callerPush(r) ==
    /\ Len(heldArray) < MaxArray
    /\ heldArray' = Append(heldArray, r)
    /\ turn' = "none"
    /\ UNCHANGED <<workerVars, chanVars, uiVars, bookVars, written, variantVars>>

InitCss ==
    /\ InitWorker /\ InitUI /\ cmdQ = <<>>
    /\ turn = "none"
    /\ written = <<>>
    /\ heldArray \in ResponseArrays

NextCss ==
    \/ callApplyGeneratedCss
    \/ callApplyGeneratedCssCopy
    \/ \E r \in ResponseTexts : callerPush(r)

SpecCss == InitCss /\ [][NextCss]_vars

(***************************************************************************)
(* worker.js, the flag-based worker: one module-level flag isGenerating,   *)
(* set by the listener on generate, cleared on stop and in the finally     *)
(* block of every generateText.  The model is not interrupted: it runs to  *)
(* its end and the streamer callback drops what it is given while the flag *)
(* is false.  gens keeps every invocation of generateText that reached its *)
(* await, with what has happened to it: fragments the model gave the       *)
(* callback (produced), whether a stop was handled while it ran (stopped), *)
(* generation_stream events posted for it after that (late), and the       *)
(* generation_complete events posted for it (completes).                   *)
(***************************************************************************)
MaxFlagCmds == 4    \* commands the harness posts to the flag-based worker

\* What no turn of the flag-based worker touches.
flagFrame == <<interrupted, uiVars, finished, workerStatus, stopsSent, stopMark, callerVars,
               earlyVars>>

\* type === 'load': loadModel up to its await of pipeline().
jsLoadModel ==
    /\ Receive("load")
    /\ evtQ' = Append(evtQ, [type |-> "load_start"])
    /\ loads' = Append(loads, [id |-> handled + 1, produced |-> 0])
    /\ UNCHANGED <<generator, gens, isGenerating, flagFrame>>

\* progress_callback of the flag-based loadModel.
jsProgressCallback(i, progress) ==
    /\ i \in 1..Len(loads)
    /\ loads[i].produced < MaxProgress
    /\ evtQ' = Append(evtQ, [type |-> "load_progress", payload |-> progress])
    /\ loads' = [loads EXCEPT ![i].produced = @ + 1]
    /\ UNCHANGED <<generator, gens, cmdQ, handled, isGenerating, flagFrame>>

\* pipeline() resolved: generator is assigned and load_complete posted.
jsPipelineResolved(i) ==
    /\ i \in 1..Len(loads)
    /\ generator' = "pipeline"
    /\ evtQ' = Append(evtQ, [type |-> "load_complete"])
    /\ loads' = RemoveAt(loads, i)
    /\ UNCHANGED <<gens, cmdQ, handled, isGenerating, flagFrame>>

\* pipeline() rejected: loadModel has no catch, the invocation ends there.
jsPipelineRejected(i) ==
    /\ i \in 1..Len(loads)
    /\ loads' = RemoveAt(loads, i)
    /\ UNCHANGED <<generator, gens, cmdQ, evtQ, handled, isGenerating, flagFrame>>

FlagGeneration(id) ==
    [id |-> id, running |-> TRUE, produced |-> 0, stopped |-> FALSE,
     late |-> 0, completes |-> 0]

\* type === 'generate': the flag is set, then generateText runs up to its
\* await of generator(), or returns at once when there is no generator.
generateText ==
    /\ Receive("generate")
    /\ isGenerating' = TRUE
    /\ gens' = IF generator = NULL THEN gens
               ELSE Append(gens, FlagGeneration(handled + 1))
    /\ UNCHANGED <<generator, loads, evtQ, flagFrame>>

\* callback_function of the streamer: if (!isGenerating) return.
streamerPosts(flag) == flag

\* The model of invocation i hands the streamer a fragment.
jsModelStep(i, text) ==
    /\ i \in 1..Len(gens)
    /\ gens[i].running
    /\ gens[i].produced < MaxFrags
    /\ IF streamerPosts(isGenerating)
       THEN /\ evtQ' = Append(evtQ, [type |-> "generation_stream", payload |-> text])
            /\ gens' = [gens EXCEPT ![i].produced = @ + 1,
                                    ![i].late = IF gens[i].stopped THEN @ + 1 ELSE @]
       ELSE /\ evtQ' = evtQ
            /\ gens' = [gens EXCEPT ![i].produced = @ + 1]
    /\ UNCHANGED <<generator, loads, cmdQ, handled, isGenerating, flagFrame>>

\* generator() of invocation i returned or threw (the catch only logs to the
\* console): the finally block clears the flag and posts generation_complete.
generateTextFinally(i) ==
    /\ i \in 1..Len(gens)
    /\ gens[i].running
    /\ isGenerating' = FALSE
    /\ evtQ' = Append(evtQ, [type |-> "generation_complete"])
    /\ gens' = [gens EXCEPT ![i].running = FALSE, ![i].completes = @ + 1]
    /\ UNCHANGED <<generator, loads, cmdQ, handled, flagFrame>>

\* type === 'stop': the flag is cleared.
jsStop ==
    /\ Receive("stop")
    /\ isGenerating' = FALSE
    /\ gens' = [i \in DOMAIN gens |->
                  IF gens[i].running THEN [gens[i] EXCEPT !.stopped = TRUE] ELSE gens[i]]
    /\ UNCHANGED <<generator, loads, evtQ, flagFrame>>

\* The harness hands the listener any command at any time.
flagPost(cmd) ==
    /\ handled < MaxFlagCmds
    /\ cmdQ = <<>>
    /\ cmd.type = "load" => loads = <<>>
    /\ cmdQ' = Append(cmdQ, cmd)
    /\ UNCHANGED <<workerVars, evtQ, uiVars, bookVars, callerVars, variantVars>>

NextFlag ==
    \/ \E cmd \in Commands : flagPost(cmd)
    \/ harnessRead
    \/ evtQ = <<>> /\ jsLoadModel
    \/ evtQ = <<>> /\ \E i \in DOMAIN loads, p \in ProgressInputs : jsProgressCallback(i, p)
    \/ evtQ = <<>> /\ \E i \in DOMAIN loads : jsPipelineResolved(i)
    \/ evtQ = <<>> /\ \E i \in DOMAIN loads : jsPipelineRejected(i)
    \/ evtQ = <<>> /\ generateText
    \/ evtQ = <<>> /\ \E i \in DOMAIN gens, t \in Chunks : jsModelStep(i, t)
    \/ evtQ = <<>> /\ \E i \in DOMAIN gens : generateTextFinally(i)
    \/ evtQ = <<>> /\ jsStop

SpecFlag == InitHarness /\ [][NextFlag]_vars

(***************************************************************************)
(* The earlier page: worker.js with an AbortController, and the App.vue    *)
(* that keeps isLoading, loadingStatus and completedBotResponses.  The     *)
(* signal handed to generator() only asks the runtime to stop: an aborted  *)
(* generation may still hand fragments to its streamer before the call     *)
(* throws or returns.  gens keeps every invocation of generateText that    *)
(* reached its await (running or not).                                     *)
(***************************************************************************)

\* What neither the earlier worker nor the earlier page touches.
earlyFrame == <<interrupted, modelStatus, messages, isFirstLoad, finished, workerStatus,
                stopMark, callerVars, isGenerating>>
\* What no turn of the earlier worker touches.
earlyUiSide == <<earlyUiVars, currentLine, currentBotResponse, styleCss, stopsSent>>
\* What no handler of the earlier page touches.
earlyWorkerSide == <<generator, loads, gens, handled, controller>>

\* type === 'load': loadModel up to its await of pipeline().
acLoadModel ==
    /\ Receive("load")
    /\ evtQ' = Append(evtQ, [type |-> "load_start"])
    /\ loads' = Append(loads, [id |-> handled + 1, produced |-> 0])
    /\ UNCHANGED <<generator, gens, controller, earlyUiSide, earlyFrame>>

acProgressCallback(i, progress) ==
    /\ i \in 1..Len(loads)
    /\ loads[i].produced < MaxProgress
    /\ evtQ' = Append(evtQ, [type |-> "load_progress", payload |-> progress])
    /\ loads' = [loads EXCEPT ![i].produced = @ + 1]
    /\ UNCHANGED <<generator, gens, cmdQ, handled, controller, earlyUiSide, earlyFrame>>

\* pipeline() resolved: the rest of loadModel's try block.
acLoadResolvedEvents ==
    << [type |-> "system_message", payload |-> <<"", "What do you have in mind?">>],
       [type |-> "load_complete", payload |-> [modelName |-> modelId]] >>

acPipelineResolved(i) ==
    /\ i \in 1..Len(loads)
    /\ generator' = "pipeline"
    /\ evtQ' = evtQ \o acLoadResolvedEvents
    /\ loads' = RemoveAt(loads, i)
    /\ UNCHANGED <<gens, cmdQ, handled, controller, earlyUiSide, earlyFrame>>

\* pipeline() rejected: loadModel's catch block.
acLoadRejectedEvents ==
    << [type |-> "system_message", payload |-> <<"", "[FATAL ERROR]">>],
       [type |-> "system_message",
        payload |-> <<"Failed to load model. Ensure you are using a modern browser that supports WebGPU.">>],
       [type |-> "load_error", payload |-> <<"error">>] >>

acPipelineRejected(i) ==
    /\ i \in 1..Len(loads)
    /\ evtQ' = evtQ \o acLoadRejectedEvents
    /\ loads' = RemoveAt(loads, i)
    /\ UNCHANGED <<generator, gens, cmdQ, handled, controller, earlyUiSide, earlyFrame>>

\* type === 'generate': a new AbortController, then generateText up to its
\* await of generator(), or its return at once when there is no generator.
acGenerateText ==
    /\ Receive("generate")
    /\ controller' = <<handled + 1>>
    /\ gens' = IF generator = NULL THEN gens
               ELSE Append(gens, [id |-> handled + 1, running |-> TRUE, produced |-> 0,
                                  aborted |-> FALSE])
    /\ UNCHANGED <<generator, loads, evtQ, earlyUiSide, earlyFrame>>

\* The model of invocation i hands the streamer a fragment.
acModelStep(i, text) ==
    /\ i \in 1..Len(gens)
    /\ gens[i].running
    /\ gens[i].produced < MaxFrags
    /\ evtQ' = Append(evtQ, [type |-> "generation_stream", payload |-> text])
    /\ gens' = [gens EXCEPT ![i].produced = @ + 1]
    /\ UNCHANGED <<generator, loads, cmdQ, handled, controller, earlyUiSide, earlyFrame>>

\* generator() of invocation i returned or threw (AbortError included): the
\* finally block drops the controller and posts generation_complete.
acGenerateTextFinally(i) ==
    /\ i \in 1..Len(gens)
    /\ gens[i].running
    /\ controller' = <<>>
    /\ evtQ' = Append(evtQ, [type |-> "generation_complete"])
    /\ gens' = [gens EXCEPT ![i].running = FALSE]
    /\ UNCHANGED <<generator, loads, cmdQ, handled, earlyUiSide, earlyFrame>>

\* type === 'stop': controller?.abort()
acStop ==
    /\ Receive("stop")
    /\ gens' = [i \in DOMAIN gens |->
                  IF controller = <<gens[i].id>>
                  THEN [gens[i] EXCEPT !.aborted = TRUE]
                  ELSE gens[i]]
    /\ UNCHANGED <<generator, loads, evtQ, controller, earlyUiSide, earlyFrame>>

\* applyGeneratedCss of the earlier page: the responses in the order given.
earlyApplyGeneratedCss(responses) == CssOfResponses(responses)

\* Commands the page has sent that are not stop: load and the generates.
SentNotStop == handled + Len(cmdQ) - stopsSent

\* sendMessage of the earlier page.
earlySendMessage(text) ==
    IF isLoading
    THEN UNCHANGED <<currentBotResponse, isLoading, loadingStatus, cmdQ>>
    ELSE /\ currentBotResponse' = <<>>
         /\ isLoading' = TRUE
         /\ loadingStatus' = "GENERATING"
         /\ cmdQ' = Append(cmdQ, [type |-> "generate", payload |-> [userText |-> text]])

\* stopGeneration of the earlier page.
earlyStopGeneration ==
    /\ cmdQ' = Append(cmdQ, [type |-> "stop"])
    /\ stopsSent' = stopsSent + 1
    /\ completedBotResponses' = Append(completedBotResponses, currentBotResponse)
    /\ styleCss' = earlyApplyGeneratedCss(Append(completedBotResponses, currentBotResponse))
    /\ isLoading' = FALSE
    /\ loadingStatus' = "READY"

\* term.onKey, Ctrl-C
earlyKeyCtrlC ==
    /\ IF isLoading /\ ~isModelLoading
       THEN /\ stopsSent < MaxStops
            /\ earlyStopGeneration
            /\ currentLine' = <<>>             \* writePrompt()
       ELSE UNCHANGED <<cmdQ, stopsSent, completedBotResponses, styleCss, isLoading,
                        loadingStatus, currentLine>>
    /\ UNCHANGED <<evtQ, currentBotResponse, isModelLoading, progressValue,
                   lastShownProgress, modelName, earlyWorkerSide, earlyFrame>>

\* if (isLoading.value) return
earlyAcceptsKeys == ~isLoading

\* term.onKey, Enter
earlyKeyEnter ==
    /\ IF earlyAcceptsKeys /\ currentLine # <<>>
       THEN /\ SentNotStop < 1 + MaxSends
            /\ earlySendMessage(currentLine)
            /\ currentLine' = <<>>
       ELSE UNCHANGED <<currentBotResponse, isLoading, loadingStatus, cmdQ, currentLine>>
    /\ UNCHANGED <<evtQ, styleCss, stopsSent, isModelLoading, progressValue,
                   lastShownProgress, completedBotResponses, modelName,
                   earlyWorkerSide, earlyFrame>>

\* term.onKey, Backspace
earlyKeyBackspace ==
    /\ IF earlyAcceptsKeys /\ Len(currentLine) > 0
       THEN currentLine' = SliceLast(currentLine)
       ELSE UNCHANGED currentLine
    /\ UNCHANGED <<chanVars, currentBotResponse, styleCss, stopsSent, earlyUiVars,
                   earlyWorkerSide, earlyFrame>>

\* term.onKey, a printable key
earlyKeyPrintable(key) ==
    /\ IF earlyAcceptsKeys
       THEN /\ Len(currentLine) < MaxLine
            /\ currentLine' = Append(currentLine, key)
       ELSE UNCHANGED currentLine
    /\ UNCHANGED <<chanVars, currentBotResponse, styleCss, stopsSent, earlyUiVars,
                   earlyWorkerSide, earlyFrame>>

\* case 'system_message': the text goes to the terminal
onSystemMessage ==
    /\ Deliver("system_message")
    /\ UNCHANGED <<cmdQ, earlyUiSide, earlyWorkerSide, earlyFrame>>

\* case 'load_start'
onLoadStart ==
    /\ Deliver("load_start")
    /\ isLoading' = TRUE
    /\ isModelLoading' = TRUE
    /\ loadingStatus' = "DOWNLOADING"
    /\ UNCHANGED <<cmdQ, currentLine, currentBotResponse, styleCss, stopsSent,
                   progressValue, lastShownProgress, completedBotResponses, modelName,
                   earlyWorkerSide, earlyFrame>>

\* case 'load_progress': Math.round of a missing progress is NaN, and no
\* comparison with NaN is true.
onLoadProgress ==
    /\ Deliver("load_progress")
    /\ LET p == Head(evtQ).payload
       IN /\ IF "progress" \in DOMAIN p /\ MathRound(p.progress) > lastShownProgress
             THEN /\ progressValue' = MathRound(p.progress)
                  /\ lastShownProgress' = MathRound(p.progress)
             ELSE UNCHANGED <<progressValue, lastShownProgress>>
          /\ loadingStatus' = ToUpperCase(p.status)
    /\ UNCHANGED <<cmdQ, currentLine, currentBotResponse, styleCss, stopsSent,
                   isLoading, isModelLoading, completedBotResponses, modelName,
                   earlyWorkerSide, earlyFrame>>

\* case 'load_complete'
onLoadComplete ==
    /\ Deliver("load_complete")
    /\ modelName' = Head(evtQ).payload.modelName
    /\ progressValue' = 100
    /\ isLoading' = FALSE
    /\ isModelLoading' = FALSE
    /\ loadingStatus' = "READY"
    /\ currentLine' = <<>>                     \* writePrompt()
    /\ UNCHANGED <<cmdQ, currentBotResponse, styleCss, stopsSent, lastShownProgress,
                   completedBotResponses, earlyWorkerSide, earlyFrame>>

\* case 'load_error'
onLoadError ==
    /\ Deliver("load_error")
    /\ isLoading' = FALSE
    /\ isModelLoading' = FALSE
    /\ loadingStatus' = "ERROR"
    /\ UNCHANGED <<cmdQ, currentLine, currentBotResponse, styleCss, stopsSent,
                   progressValue, lastShownProgress, completedBotResponses, modelName,
                   earlyWorkerSide, earlyFrame>>

\* case 'generation_stream' of the earlier page
onEarlyGenerationStream ==
    /\ Deliver("generation_stream")
    /\ LET token == Head(evtQ).payload
       IN /\ currentBotResponse' = currentBotResponse \o token
          /\ styleCss' = earlyApplyGeneratedCss(
                 Append(completedBotResponses, currentBotResponse \o token))
    /\ UNCHANGED <<cmdQ, currentLine, stopsSent, earlyUiVars, earlyWorkerSide, earlyFrame>>

\* case 'generation_complete' of the earlier page
onEarlyGenerationComplete ==
    /\ Deliver("generation_complete")
    /\ completedBotResponses' = Append(completedBotResponses, currentBotResponse)
    /\ styleCss' = earlyApplyGeneratedCss(Append(completedBotResponses, currentBotResponse))
    /\ isLoading' = FALSE
    /\ loadingStatus' = "READY"
    /\ currentLine' = <<>>                     \* writePrompt()
    /\ UNCHANGED <<cmdQ, currentBotResponse, stopsSent, isModelLoading, progressValue,
                   lastShownProgress, modelName, earlyWorkerSide, earlyFrame>>

NextEarly ==
    \/ acLoadModel
    \/ \E i \in DOMAIN loads, p \in ProgressInputs : acProgressCallback(i, p)
    \/ \E i \in DOMAIN loads : acPipelineResolved(i)
    \/ \E i \in DOMAIN loads : acPipelineRejected(i)
    \/ acGenerateText
    \/ \E i \in DOMAIN gens, t \in Chunks : acModelStep(i, t)
    \/ \E i \in DOMAIN gens : acGenerateTextFinally(i)
    \/ acStop
    \/ earlyKeyCtrlC
    \/ earlyKeyEnter
    \/ earlyKeyBackspace
    \/ \E key \in Keys : earlyKeyPrintable(key)
    \/ onSystemMessage
    \/ onLoadStart
    \/ onLoadProgress
    \/ onLoadComplete
    \/ onLoadError
    \/ onEarlyGenerationStream
    \/ onEarlyGenerationComplete

SpecEarly == Init /\ [][NextEarly]_vars

(***************************************************************************)
(* Properties.                                                             *)
(***************************************************************************)
IsStatus(e, status, ready, interruptable) ==
    /\ e.type = "model_status"
    /\ e.payload.status = status
    /\ e.payload.ready = ready
    /\ e.payload.interruptable = interruptable

\* ready = true iff status = READY, interruptable = true iff status = GENERATING
FlagsMatchStatus(st) ==
    /\ st.ready <=> (st.status = "READY")
    /\ st.interruptable <=> (st.status = "GENERATING")

\* C1: in the composed system at most one call of generator.model.generate
\* is in progress in the worker at any time.
C1_OneGenerationInProgress == Len(gens) <= 1

\* C2: every model_status payload the worker has posted, and the UI's mirrored
\* modelStatus, has ready = true iff status = READY and interruptable = true
\* iff status = GENERATING.
C2_FlagsMatchStatus ==
    /\ FlagsMatchStatus(modelStatus)
    /\ \A k \in DOMAIN evtQ :
          evtQ[k].type = "model_status" => FlagsMatchStatus(evtQ[k].payload)

\* The events of one generation, as C3 lists them: GENERATING, one
\* generation_stream per fragment in production order, generation_complete,
\* READY; with, when the model call threw, a worker_log before the
\* generation_complete.
GenerationEvents(out, produced, logged) ==
    LET n == Len(produced)
        k == IF logged THEN 1 ELSE 0
    IN /\ Len(out) = n + k + 3
       /\ IsStatus(out[1], "GENERATING", FALSE, TRUE)
       /\ \A j \in 1..n : /\ out[1 + j].type = "generation_stream"
                          /\ out[1 + j].payload = produced[j]
       /\ logged => /\ out[n + 2].type = "worker_log"
                    /\ out[n + 2].payload.level = "error"
       /\ out[n + k + 2].type = "generation_complete"
       /\ IsStatus(out[n + k + 3], "READY", TRUE, FALSE)

\* C3 as stated: every generate handled with a model loaded posts exactly
\* GENERATING, its fragments in order, one generation_complete, READY.
C3_GenerationEventsAsStated ==
    (finished.kind = "gen" /\ finished.hadGenerator)
        => GenerationEvents(finished.out, finished.produced, FALSE)

\* C3, amended: every generate handled with a model loaded posts GENERATING,
\* one generation_stream per fragment in production order, then a
\* worker_log{error} if and only if the model call threw, then exactly one
\* generation_complete, then READY, and nothing after it.
C3_GenerationEvents ==
    (finished.kind = "gen" /\ finished.hadGenerator)
        => GenerationEvents(finished.out, finished.produced, finished.how = "threw")

C3_Witness ==
    /\ finished.kind = "gen"
    /\ finished.hadGenerator
    /\ finished.how = "returned"
    /\ Len(finished.produced) = 2
    /\ finished.produced[1] # finished.produced[2]

\* C4: the content of every assistant message in the history is the exact
\* concatenation of the generation_stream chunks of the generation whose
\* generation_complete appended it.
C4_ContentIsOwnStream ==
    \A k \in DOMAIN messages :
        messages[k].role = "assistant" => messages[k].content = messages[k].said

Quiescent == cmdQ = <<>> /\ evtQ = <<>> /\ gens = <<>> /\ loads = <<>>

\* C5: the history starts with a user message, no two neighbours have the
\* same role, and once every generation has completed each user message is
\* followed by exactly one assistant message.
C5_HistoryAlternates ==
    /\ messages # <<>> => messages[1].role = "user"
    /\ \A k \in 1..Len(messages) - 1 : messages[k].role # messages[k + 1].role
    /\ Quiescent => Len(messages) % 2 = 0

\* C6: once the UI has sent stop while its mirrored status was GENERATING and
\* the mirror has returned to READY with interruptable = false, handling a
\* generation_stream never changes the mirrored status, and the mirror does
\* not become GENERATING again unless sendMessage has sent a new generate
\* since.  (stopMark is "sent" from such a stop until that READY, "ready"
\* from then until the next generate is sent.)
C6_StaysReadyAfterStop ==
    [][ /\ (evtQ # <<>> /\ Head(evtQ).type = "generation_stream" /\ evtQ' = Tail(evtQ))
            => modelStatus' = modelStatus
        /\ stopMark = "ready" => modelStatus'.status # "GENERATING" ]_vars

HasGenerationOutput(out) ==
    \E k \in DOMAIN out : out[k].type \in {"generation_stream", "generation_complete"}

\* C7: a generate received while the worker's status (the last one it posted)
\* is not READY posts no generation_stream and no generation_complete.
C7_NoOutputUnlessReady ==
    /\ \A i \in DOMAIN gens :
          gens[i].recvStatus # "READY" => ~HasGenerationOutput(gens[i].out)
    /\ (finished.kind = "gen" /\ finished.recvStatus # "READY")
          => ~HasGenerationOutput(finished.out)

\* C8: a generate handled while generator is null posts no event at all.
C8_NoEventWithoutGenerator ==
    (finished.kind = "gen" /\ ~finished.hadGenerator) => finished.out = <<>>

\* C9, amended: a load that succeeds posts load_start,
\* model_status{INITIALIZING, ready:false}, one model_status with ready:false
\* and interruptable:false per progress callback, then model_status{READY,
\* ready:true}; none of the statuses the load itself posts before the last
\* has ready:true.
C9_LoadSuccessEvents ==
    (finished.kind = "load" /\ finished.how = "resolved") =>
        LET out == finished.out
            n == Len(finished.produced)
        IN /\ Len(out) = n + 3
           /\ out[1].type = "load_start"
           /\ IsStatus(out[2], "INITIALIZING", FALSE, FALSE)
           /\ \A j \in 1..n : /\ out[2 + j].type = "model_status"
                              /\ out[2 + j].payload.status = finished.produced[j]
                              /\ ~out[2 + j].payload.ready
                              /\ ~out[2 + j].payload.interruptable
           /\ IsStatus(out[n + 3], "READY", TRUE, FALSE)
           /\ generator # NULL

\* C9 as stated: the same sequence, and no model_status with ready:true is
\* posted by the worker at all while the load is still pending.
C9_LoadSuccessEventsAsStated ==
    /\ C9_LoadSuccessEvents
    /\ loads # <<>> =>
          \A k \in DOMAIN evtQ :
              evtQ[k].type = "model_status" => ~evtQ[k].payload.ready

C9_Witness ==
    /\ finished.kind = "load"
    /\ finished.how = "resolved"
    /\ Len(finished.produced) = 2
    /\ finished.produced[2] = "READY"

IsErrorStatus(e) == e.type = "model_status" /\ e.payload.status = "ERROR"

\* C11: in the composed system a model_status{ERROR} is posted only by the
\* turn in which a load fails, with no generation running and none ever
\* requested; and once the mirrored status is ERROR no step changes the
\* mirrored status, the line buffer, the response buffer, the history or the
\* command channel.
C11_ErrorIsFatal ==
    [][ /\ (\E k \in DOMAIN evtQ' : k > Len(evtQ) /\ IsErrorStatus(evtQ'[k]))
            => /\ finished'.kind = "load"
               /\ finished'.how = "rejected"
               /\ gens = <<>>
               /\ messages = <<>>
        /\ modelStatus.status = "ERROR"
            => /\ modelStatus' = modelStatus
               /\ currentLine' = currentLine
               /\ currentBotResponse' = currentBotResponse
               /\ messages' = messages
               /\ cmdQ' = cmdQ ]_vars

C11_Witness ==
    /\ modelStatus.status = "ERROR"
    /\ evtQ = <<>>
    /\ cmdQ = <<>>
    /\ messages = <<>>

\* C12: when the model call of a generation throws, the invocation ends by
\* posting worker_log{level:error}, then generation_complete, then
\* model_status{READY, ready:true, interruptable:false}; it has posted exactly
\* one generation_complete, and it has returned (it is no longer pending).
C12_ThrowEvents ==
    (finished.kind = "gen" /\ finished.how = "threw") =>
        LET out == finished.out
            n == Len(out)
        IN /\ n >= 4
           /\ out[n - 2].type = "worker_log"
           /\ out[n - 2].payload.level = "error"
           /\ out[n - 1].type = "generation_complete"
           /\ IsStatus(out[n], "READY", TRUE, FALSE)
           /\ Cardinality({k \in 1..n : out[k].type = "generation_complete"}) = 1
           /\ \A i \in DOMAIN gens : gens[i].id # finished.id

C12_Witness ==
    /\ finished.kind = "gen"
    /\ finished.how = "threw"
    /\ Len(finished.produced) = 1


\* An invocation of generate has returned in this turn, and the last two
\* events it posted are generation_complete and model_status{READY}.
GenCompleted ==
    /\ finished.kind = "gen"
    /\ Len(finished.out) >= 3
    /\ finished.out[Len(finished.out) - 1].type = "generation_complete"
    /\ IsStatus(finished.out[Len(finished.out)], "READY", TRUE, FALSE)

\* C13: in the composed system, under fair delivery and a model runtime whose
\* calls end, every generate that posts model_status{GENERATING} has a model
\* loaded, every model_status{GENERATING} the worker posts is eventually
\* followed by a generation_complete and a model_status{READY}, and a
\* mirrored status GENERATING is always eventually followed by a mirrored
\* status READY.
C13_GeneratingEnds ==
    /\ [](finished.kind = "gen" => finished.hadGenerator)
    /\ (workerStatus.status = "GENERATING") ~> GenCompleted
    /\ (modelStatus.status = "GENERATING") ~> (modelStatus.status = "READY" /\ modelStatus.ready)

C13_Witness ==
    /\ Quiescent
    /\ Len(messages) = 2
    /\ messages[2].role = "assistant"
    /\ modelStatus.status = "READY"
    /\ stopsSent = 0


IsModelStatus(e) == e.type = "model_status"

\* The status labels of the model_status events among evs, in order.
StatusLabels(evs) ==
    LET st == SelectSeq(evs, IsModelStatus)
    IN [k \in 1..Len(st) |-> st[k].payload.status]

\* C14: in the composed system, in the sequence of model_status events the
\* worker posts, the status before every GENERATING is READY and the status
\* after every GENERATING is READY.
C14_GeneratingBetweenReady ==
    [][ Len(evtQ') > Len(evtQ) =>
          LET st == <<workerStatus.status>>
                      \o StatusLabels(SubSeq(evtQ', Len(evtQ) + 1, Len(evtQ')))
          IN \A k \in 1..Len(st) - 1 :
                /\ st[k + 1] = "GENERATING" => st[k] = "READY"
                /\ st[k] = "GENERATING" => st[k + 1] = "READY" ]_vars

\* C15: every turn that handles a stop command sets the interrupt token and
\* posts exactly one event, model_status{READY, ready:true,
\* interruptable:false}; it ends no generation and no load and leaves
\* generator alone.
C15_StopPostsReady ==
    [][ (cmdQ # <<>> /\ Head(cmdQ).type = "stop" /\ cmdQ' = Tail(cmdQ)) =>
          /\ interrupted'
          /\ Len(evtQ') = Len(evtQ) + 1
          /\ SubSeq(evtQ', 1, Len(evtQ)) = evtQ
          /\ IsStatus(evtQ'[Len(evtQ')], "READY", TRUE, FALSE)
          /\ gens' = gens
          /\ loads' = loads
          /\ generator' = generator ]_vars

C15_Witness ==
    /\ interrupted
    /\ gens # <<>>
    /\ gens[1].produced # <<>>
    /\ evtQ # <<>>
    /\ IsStatus(evtQ[Len(evtQ)], "READY", TRUE, FALSE)
    /\ finished = NoInvocation
    /\ workerStatus.status = "READY"


StopCommand == [type |-> "stop"]

\* C16: a Ctrl-C keystroke sends exactly one stop command and clears the line
\* buffer when interruptable is true; when it is false it sends nothing and
\* leaves the line buffer, the history and the response buffer unchanged.
C16_CtrlC ==
    [][ turn' = "keyCtrlC" =>
          IF modelStatus.interruptable
          THEN /\ cmdQ' = Append(cmdQ, StopCommand)
               /\ currentLine' = <<>>
          ELSE /\ cmdQ' = cmdQ
               /\ currentLine' = currentLine
               /\ messages' = messages
               /\ currentBotResponse' = currentBotResponse ]_vars

C16_Witness ==
    /\ turn = "keyCtrlC"
    /\ cmdQ = <<StopCommand>>
    /\ modelStatus.interruptable
    /\ currentLine = <<>>
    /\ currentBotResponse # <<>>

\* C17: while ready is false, a printable key, Enter and Backspace change
\* neither the line buffer, the history nor the response buffer, and send no
\* command.
C17_KeysIgnoredUnlessReady ==
    [][ (turn' \in {"keyPrintable", "keyEnter", "keyBackspace"} /\ ~modelStatus.ready) =>
          /\ currentLine' = currentLine
          /\ messages' = messages
          /\ currentBotResponse' = currentBotResponse
          /\ cmdQ' = cmdQ ]_vars

C17_Witness ==
    /\ turn = "keyBackspace"
    /\ ~modelStatus.ready
    /\ currentLine # <<>>

\* C18: while ready, Enter on a non-empty line buffer appends one user
\* message holding that line, empties the response buffer, sends one generate
\* command and empties the line buffer; Enter on an empty line buffer, and
\* sendMessage called while not ready, change nothing and send nothing.
C18_EnterCommits ==
    [][ /\ (turn' = "keyEnter" /\ modelStatus.ready) =>
            IF currentLine # <<>>
            THEN /\ Len(messages') = Len(messages) + 1
                 /\ SubSeq(messages', 1, Len(messages)) = messages
                 /\ messages'[Len(messages')].role = "user"
                 /\ messages'[Len(messages')].content = currentLine
                 /\ currentBotResponse' = <<>>
                 /\ Len(cmdQ') = Len(cmdQ) + 1
                 /\ cmdQ'[Len(cmdQ')].type = "generate"
                 /\ currentLine' = <<>>
            ELSE UNCHANGED <<messages, currentBotResponse, cmdQ, currentLine>>
        /\ (turn' = "sendMessage" /\ ~modelStatus.ready) =>
            UNCHANGED <<messages, currentBotResponse, cmdQ, currentLine>> ]_vars

C18_Witness ==
    /\ turn = "keyEnter"
    /\ Len(cmdQ) = 1
    /\ cmdQ[1].type = "generate"
    /\ Len(messages) = 3
    /\ messages[2].role = "assistant"
    /\ messages[2].content # <<>>
    /\ messages[3].role = "user"
    /\ currentLine = <<>>
    /\ currentBotResponse = <<>>


\* A history entry as a ChatMessage: its role and its content.
ChatMessages(msgs) ==
    [k \in 1..Len(msgs) |-> [role |-> msgs[k].role, content |-> msgs[k].content]]

\* C19: every generate command the UI sends carries the instructional
\* preamble followed by the complete history, the new user message last.
C19_GenerateCarriesHistory ==
    [][ (Len(cmdQ') > Len(cmdQ) /\ cmdQ'[Len(cmdQ')].type = "generate") =>
          cmdQ'[Len(cmdQ')].payload.messages = modelInstructions \o ChatMessages(messages') ]_vars


\* C20: a call of applyGeneratedCss that follows a call, with no change to
\* the responses by the caller in between, leaves the style content as the
\* first call set it, whether it is given the same array or a copy of it.
C20_ExtractionIdempotent ==
    [][ (turn = "applyGeneratedCss" /\ turn' = "applyGeneratedCss")
            => styleCss' = styleCss ]_vars


\* The line that closes the block opened at line k of text: the first bare
\* fence after k, or one past the end when the block is left open.
ClosingLine(text, k) ==
    LET closers == {j \in (k + 1)..Len(text) : text[j] = "~~~"}
    IN IF closers = {} THEN Len(text) + 1
       ELSE CHOOSE j \in closers : \A i \in closers : j <= i

\* The bodies of the css blocks of text from line k on, in document order,
\* each followed by a newline.
RECURSIVE CssBlockBodies(_, _)
CssBlockBodies(text, k) ==
    IF k > Len(text) THEN <<>>
    ELSE IF IsFence(text[k])
         THEN LET c == ClosingLine(text, k)
                  body == SubSeq(text, k + 1, c - 1)
              IN (IF text[k] = "~~~css"
                  THEN (IF body = <<>> THEN <<"">> ELSE body)
                  ELSE <<>>)
                 \o CssBlockBodies(text, c + 1)
         ELSE CssBlockBodies(text, k + 1)

\* The css of the responses rs[1..n], the newest (rs[n]) first.
RECURSIVE NewestFirstCss(_, _)
NewestFirstCss(rs, n) ==
    IF n = 0 THEN <<>> ELSE CssBlockBodies(rs[n], 1) \o NewestFirstCss(rs, n - 1)

\* C21: after every call of applyGeneratedCss the style content is exactly
\* the bodies of the css blocks of the responses it was given, each followed
\* by a newline, the responses taken last to first and the blocks of one
\* response in document order; blocks with another tag and the content of an
\* earlier call contribute nothing.
C21_StyleIsNewestFirstCss ==
    [][ turn' = "applyGeneratedCss"
            => styleCss' = NewestFirstCss(heldArray, Len(heldArray)) ]_vars

C21_Witness ==
    /\ turn = "applyGeneratedCss"
    /\ Len(heldArray) = 3
    /\ \E k \in 1..3 : heldArray[k] = <<"~~~js", "a{}", "~~~">>
    /\ styleCss = <<"b{}", "a{}">>


\* The progress inputs whose label is the given status label.
ShownBy(label) ==
    {p \in ProgressInputs : "progress" \in DOMAIN p /\ statusText(p) = label}

\* The percentage a status label shows (the label of a progress callback that
\* carried a number).
PercentShown(label) == MathRound((CHOOSE p \in ShownBy(label) : TRUE).progress)

\* C22: during a load the percentage in the mirrored status label never
\* decreases from one handled model_status to the next.
C22_ProgressNeverDecreases ==
    [][ (ShownBy(modelStatus.status) # {} /\ ShownBy(modelStatus'.status) # {})
            => PercentShown(modelStatus'.status) >= PercentShown(modelStatus.status) ]_vars


\* C23: while ready, Backspace on an empty line buffer leaves it empty and
\* writes nothing to the terminal; on a non-empty line buffer it removes the
\* last character and no other; in both cases it sends no command.
C23_Backspace ==
    [][ (turn' = "keyBackspace" /\ modelStatus.ready) =>
          /\ IF currentLine = <<>>
             THEN currentLine' = <<>> /\ written' = <<>>
             ELSE /\ Len(currentLine') = Len(currentLine) - 1
                  /\ \A k \in 1..Len(currentLine') : currentLine'[k] = currentLine[k]
          /\ cmdQ' = cmdQ ]_vars

C23_Witness ==
    /\ turn = "keyBackspace"
    /\ modelStatus.ready
    /\ currentLine = <<"x", "y">>
    /\ written # <<>>


\* C24 (as stated): in the flag-based worker, once a stop has been handled
\* while a generation runs, no generation_stream is posted any more for the
\* text of that generation, whatever generate and stop commands follow.
C24_StoppedGenerationIsSilent ==
    \A i \in DOMAIN gens : "late" \in DOMAIN gens[i] => gens[i].late = 0

\* C24, second half: every generation that ran has exactly one
\* generation_complete posted for it, and none while it runs.
C24_OneCompletePerGeneration ==
    \A i \in DOMAIN gens : "completes" \in DOMAIN gens[i] =>
        gens[i].completes = IF gens[i].running THEN 0 ELSE 1

C24_Witness ==
    \E i \in DOMAIN gens :
        /\ "late" \in DOMAIN gens[i]
        /\ gens[i].stopped /\ ~gens[i].running /\ gens[i].produced > 0
        /\ gens[i].late = 0


\* The responses the stream handler extracts the style from: the finalized
\* assistant messages of msgs, oldest first, then the live buffer.
FinalizedAndLive(msgs, live) == Append(AssistantContents(msgs), live)

\* C25: handling one generation_stream event appends its chunk to the end of
\* the live response buffer, leaves the history unchanged, and sets the style
\* content to the extraction over the finalized assistant messages plus the
\* buffer after the append; the mirrored status and the line buffer keep
\* their values.
C25_StreamHandler ==
    [][ turn' = "generation_stream" =>
          /\ currentBotResponse' = currentBotResponse \o Head(evtQ).payload
          /\ messages' = messages
          /\ LET rs == FinalizedAndLive(messages', currentBotResponse')
             IN styleCss' = NewestFirstCss(rs, Len(rs))
          /\ modelStatus' = modelStatus
          /\ currentLine' = currentLine ]_vars

C25_Witness ==
    /\ turn = "generation_stream"
    /\ \E k \in DOMAIN messages :
          IsAssistant(messages[k]) /\ messages[k].content = <<"ok", "~~~css", "a{}">>
    /\ currentBotResponse = <<"ok", "~~~css", "a{}">>
    /\ currentLine = <<"x">>
    /\ modelStatus.ready
    /\ styleCss = <<"a{}", "a{}">>


\* The UI takes an event of the given type off the channel in this step.
Handles(type) == evtQ # <<>> /\ Head(evtQ).type = type /\ evtQ' = Tail(evtQ)

\* The extraction over exactly the assistant messages of msgs.
FinalizedCss(msgs) ==
    LET rs == AssistantContents(msgs) IN NewestFirstCss(rs, Len(rs))

\* C26: handling one generation_complete event appends exactly one assistant
\* message whose content is the live response buffer to the history, and
\* afterwards the style content is the extraction over exactly the assistant
\* messages of the history; whenever both channels are empty and no
\* generation is running, the style content is that extraction.
C26_CompleteFinalizes ==
    /\ [][ Handles("generation_complete") =>
             /\ Len(messages') = Len(messages) + 1
             /\ SubSeq(messages', 1, Len(messages)) = messages
             /\ messages'[Len(messages')].role = "assistant"
             /\ messages'[Len(messages')].content = currentBotResponse
             /\ styleCss' = FinalizedCss(messages') ]_vars
    /\ [](cmdQ = <<>> /\ evtQ = <<>> /\ gens = <<>> => styleCss = FinalizedCss(messages))

C26_Witness ==
    /\ cmdQ = <<>> /\ evtQ = <<>> /\ gens = <<>>
    /\ Len(messages) = 4
    /\ messages[2].role = "assistant" /\ messages[2].content = <<"~~~css", "a{}", "ok">>
    /\ messages[4].role = "assistant" /\ messages[4].content = <<"ok">>
    /\ styleCss = <<"a{}", "ok">>


\* The labels the specification gives the mirrored status for a load whose
\* progress callbacks are initiate at 10 and download at 67 percent.
StatedLoadLabels == {"INITIALIZING", "DOWNLOADING 10%", "DOWNLOADING 67%", "READY"}

\* C27 (as stated): while the page has sent nothing but load, the label the UI
\* mirrors is INITIALIZING, then DOWNLOADING 10%, DOWNLOADING 67% for the
\* progress callbacks, then READY (or ERROR when the load fails).
C27_LoadLabels ==
    (handled <= 1 /\ stopsSent = 0 /\ messages = <<>>)
        => modelStatus.status \in StatedLoadLabels \cup {"ERROR"}


\* The ids of the generations that are running.
RunningIds(gs) == {gs[i].id : i \in DOMAIN gs}

\* C28 (as stated): an accepted stop is never lost.  The token is set only by
\* stop and every generate that starts a generation resets it, so a set token
\* beside a running generation was set while that generation ran; no step
\* clears the token while such a generation is still running, that is before
\* its loop has observed the token and returned.
C28_StopNeverLost ==
    [][ (interrupted /\ ~interrupted') => RunningIds(gens) \cap RunningIds(gens') = {} ]_vars


\* C29 (as stated): the line buffer is filled only by keys pressed while the
\* mirrored status is ready, and no worker event the UI handles (model_status,
\* generation_stream, generation_complete, worker_log) removes or clears what
\* it holds.
C29_EventsKeepTypedLine ==
    [][ (evtQ # <<>> /\ evtQ' = Tail(evtQ)) => currentLine' = currentLine ]_vars


\* Both channels are empty, the load has finished and no generation runs.
Settled == cmdQ = <<>> /\ evtQ = <<>> /\ handled >= 1 /\ loads = <<>> /\ gens = <<>>

\* C30: in the composed system, whenever both channels are empty, the load has
\* finished and no generation is running, the mirrored status is the last
\* model_status the worker posted, and it is READY (ready, not interruptable,
\* the model loaded) or ERROR; it is not GENERATING and not ready without a
\* model.
C30_SettledMirror ==
    Settled =>
        /\ modelStatus = workerStatus
        /\ \/ /\ modelStatus.status = "READY"
              /\ modelStatus.ready
              /\ ~modelStatus.interruptable
              /\ generator # NULL
           \/ modelStatus.status = "ERROR"
        /\ modelStatus.status # "GENERATING"
        /\ modelStatus.ready => generator # NULL

C30_Witness ==
    /\ Settled
    /\ stopsSent = 1
    /\ Len(messages) = 4
    /\ modelStatus.status = "READY"


\* The earlier page at rest with a model: both channels empty, the load over
\* and no generation running.
EarlySettled ==
    /\ cmdQ = <<>> /\ evtQ = <<>> /\ loads = <<>> /\ generator # NULL
    /\ \A i \in DOMAIN gens : ~gens[i].running

\* C31 (as stated), the earlier page with the AbortController worker: every
\* generation, stopped or not, has contributed exactly one entry to the
\* finalized responses once it is over and its events are handled, whatever
\* the order of the stop action and the generation_complete event.
C31_OneEntryPerGeneration ==
    EarlySettled => Len(completedBotResponses) = Len(gens)

\* C31, the terminal UI with the typed worker: once every generation is over
\* and its events are handled, the history holds exactly one assistant
\* message per generate command, stopped or not (all commands but load and
\* the stops are generates).
C31_TypedOneEntryPerGeneration ==
    Quiescent => Len(SelectSeq(messages, IsAssistant)) = handled - 1 - stopsSent


\* The load failed and the page has handled its load_error: the load is over
\* without a generator and no load_error waits in the channel.
LoadErrorHandled ==
    /\ handled >= 1 /\ loads = <<>> /\ generator = NULL
    /\ \A k \in DOMAIN evtQ : evtQ[k].type # "load_error"

\* C32 (as stated): in the earlier page a load failure is fatal for the
\* session.  After load_error has been handled the page accepts no typed
\* input, sends no generate command (load stays the only command it ever
\* sent), and its status label stays ERROR, so it never becomes GENERATING.
C32_LoadErrorIsFatal ==
    LoadErrorHandled =>
        /\ currentLine = <<>>
        /\ handled + Len(cmdQ) = 1
        /\ loadingStatus = "ERROR"

====
